---- MODULE Spec2Model ----
(***************************************************************************)
(* Range and round-robin partitioning of a ratings table (Interface.py).   *)
(*                                                                         *)
(* The database is a catalog `tables` from table names to their rows.      *)
(* Every handler is written as the sequence of SQL statements it executes  *)
(* on a session (committed tables + the statements pending in the open     *)
(* transaction), so that commits, early returns and exceptions fall where  *)
(* the code puts them.  Python floats are IEEE-754 binary64 values, kept   *)
(* exactly as fixed-point big naturals.                                    *)
(***************************************************************************)
EXTENDS Integers, Sequences, FiniteSets, TLC

(***************************************************************************)
(* Bounds of the model.                                                    *)
(***************************************************************************)
\* largest numberofpartitions handed to a bulk build in the call sequences
MaxN == 3
\* largest number of lines of the short ratings files in the call sequences
MaxRows == 0
\* largest number of inserts that write the Base Dataset in one call sequence
MaxInserts == 2
\* number of connections calling at the same time in the concurrent runs
NConns == 2
\* largest numberofpartitions handed to a bulk build in the bulk-only runs
MaxBulkN == 11
\* largest number of lines of the ratings file in the bulk-only runs
MaxBulkRows == 7

(***************************************************************************)
(* Big naturals: NLimbs limbs of LimbBits bits, least significant first.   *)
(* TLC's integers are 32 bits wide; a binary64 mantissa has 53.            *)
(***************************************************************************)
LimbBits == 15
NLimbs == 10
MantBits == 53
\* a float x is kept as the natural x * 2^FracBits (exact for every binary64
\* value that is 0 or at least 2^(MantBits - 1 - FracBits) = 2^-8)
FracBits == 60
\* extra quotient bits kept by a division before it is rounded
GuardBits == 15

LimbBase == 2^LimbBits

Limbs == 1..NLimbs

BZero == [i \in Limbs |-> 0]

\* a natural below 2^30 as a big natural
BNat(n) == [i \in Limbs |-> IF i = 1 THEN n % LimbBase ELSE IF i = 2 THEN n \div LimbBase ELSE 0]

RECURSIVE AddFrom(_, _, _, _)
AddFrom(a, b, i, c) ==
    IF i > NLimbs THEN <<>>
    ELSE LET s == a[i] + b[i] + c
         IN <<s % LimbBase>> \o AddFrom(a, b, i + 1, s \div LimbBase)

BAdd(a, b) == AddFrom(a, b, 1, 0)

RECURSIVE SubFrom(_, _, _, _)
SubFrom(a, b, i, c) ==
    IF i > NLimbs THEN <<>>
    ELSE LET s == a[i] - b[i] - c
         IN <<(s + LimbBase) % LimbBase>> \o SubFrom(a, b, i + 1, IF s < 0 THEN 1 ELSE 0)

\* a - b, for a >= b
BSub(a, b) == SubFrom(a, b, 1, 0)

BLess(a, b) ==
    LET D == {i \in Limbs : a[i] # b[i]}
    IN  D # {} /\ LET h == CHOOSE i \in D : \A j \in D : j <= i IN a[h] < b[h]

BLeq(a, b) == ~BLess(b, a)

RECURSIVE MulFrom(_, _, _, _)
MulFrom(a, k, i, c) ==
    IF i > NLimbs THEN <<>>
    ELSE LET s == a[i] * k + c
         IN <<s % LimbBase>> \o MulFrom(a, k, i + 1, s \div LimbBase)

\* a * k, for 0 <= k <= LimbBase
BMulSmall(a, k) == MulFrom(a, k, 1, 0)

RECURSIVE DivFrom(_, _, _, _)
DivFrom(a, k, i, r) ==
    IF i < 1 THEN <<>>
    ELSE LET s == r * LimbBase + a[i]
         IN DivFrom(a, k, i - 1, s % k) \o <<s \div k>>

\* a \div k, for 0 < k <= LimbBase
BDivSmall(a, k) == DivFrom(a, k, NLimbs, 0)

\* a * LimbBase^s (s may be negative: the low limbs are dropped)
ShiftLimbs(a, s) == [i \in Limbs |-> IF i - s \in Limbs THEN a[i - s] ELSE 0]

\* a * 2^n
BShl(a, n) == BMulSmall(ShiftLimbs(a, n \div LimbBits), 2^(n % LimbBits))

\* a \div 2^n
BShr(a, n) == BDivSmall(ShiftLimbs(a, -(n \div LimbBits)), 2^(n % LimbBits))

SmallBitLen(x) == CHOOSE n \in 0..LimbBits : x < 2^n /\ (n = 0 \/ 2^(n - 1) <= x)

\* the number of bits of a (0 for 0)
BitLen(a) ==
    IF a = BZero THEN 0
    ELSE LET h == CHOOSE i \in Limbs : a[i] # 0 /\ \A j \in Limbs : j > i => a[j] = 0
         IN  LimbBits * (h - 1) + SmallBitLen(a[h])

\* bit n (from 0) of a
Bit(a, n) == (a[(n \div LimbBits) + 1] \div 2^(n % LimbBits)) % 2

(***************************************************************************)
(* binary64 arithmetic, round to nearest, ties to even.                    *)
(***************************************************************************)
\* x (with `sticky`: a little more than x) rounded to MantBits significant bits
Round53(x, sticky) ==
    LET d == BitLen(x) - MantBits
    IN  IF d <= 0 THEN x
        ELSE LET kept == BShr(x, d)
                 low  == BSub(x, BShl(kept, d))
                 half == BShl(BNat(1), d - 1)
                 up   == \/ BLess(half, low)
                         \/ low = half /\ (sticky \/ Bit(kept, 0) = 1)
             IN  BShl(IF up THEN BAdd(kept, BNat(1)) ELSE kept, d)

\* float(n) for an int 0 <= n < 2^15
FInt(n) == BShl(BNat(n), FracBits)

FAdd(x, y) == Round53(BAdd(x, y), FALSE)

\* int * float
FMulInt(i, x) == Round53(BMulSmall(x, i), FALSE)

\* x / float(n) for an int 0 < n < 2^15
FDivInt(x, n) ==
    LET num == BShl(x, GuardBits)
        q   == BDivSmall(num, n)
    IN  BShr(Round53(q, BMulSmall(q, n) # num), GuardBits)

\* floor of the real quotient x / y, for x >= 0, y > 0 and x / y < kmax
FloorQuot(x, y, kmax) ==
    CHOOSE k \in 0..kmax : BLeq(BMulSmall(y, k), x) /\ BLess(x, BMulSmall(y, k + 1))

\* int(x / y) for x >= 0, y > 0 and x / y < kmax.  With k the floor of the
\* real quotient, the rounded quotient x / y is below k + 1 and truncates to
\* k, unless the real quotient is at or above the midpoint of k + 1 and the
\* float just below it: then it rounds to k + 1 (a tie goes to k + 1, whose
\* mantissa is even).  The floats just below k + 1 are 2^(e - MantBits + 1)
\* apart, where e = SmallBitLen(k) - 1, so the midpoint is
\* k + 1 - 2^(e - MantBits).
FDivTrunc(x, y, kmax) ==
    LET k == FloorQuot(x, y, kmax)
        s == MantBits - (SmallBitLen(k) - 1)
        mid == BSub(BShl(BMulSmall(y, k + 1), s), y)
    IN  IF BLeq(mid, BShl(x, s)) THEN k + 1 ELSE k

\* x % y == 0 for x >= 0, y > 0 and x / y < kmax: the float remainder is
\* exact, so it is 0 exactly when x is a whole multiple of y
FModIsZero(x, y, kmax) == BMulSmall(y, FloorQuot(x, y, kmax)) = x

(***************************************************************************)
(* Ratings.  A rating is kept as a whole number of half stars (the rating  *)
(* 2.5 is 5); every such value is an exact float.                          *)
(***************************************************************************)
\* the float of a rating h / 2, h >= 0
FRating(h) == BShr(FInt(h), 1)

\* the rating check without its upper bound
RatingBelowRange(rating) == rating < 0

\* rating < 0 or rating > 5
RatingOutOfRange(rating) == rating < 0 \/ rating > 10

\* delta = 5.0 / numberofpartitions
delta(numberofpartitions) == FDivInt(FInt(5), numberofpartitions)

\* minRange = i * delta
minRange(i, d) == FMulInt(i, d)

\* maxRange = minRange + delta
maxRange(i, d) == FAdd(minRange(i, d), d)

\* the WHERE clause of rangepartition's INSERT ... SELECT for partition i:
\* rating >= {minRange} (rating > {minRange} when i > 0) AND rating <= {maxRange}.
\* The bounds reach the server as the shortest decimal strings that read back
\* as the same floats, and are compared with the FLOAT column as floats.
RangeWhere(rating, i, lo, hi) ==
    /\ IF i = 0 THEN BLeq(lo, rating) ELSE BLess(lo, rating)
    /\ BLeq(rating, hi)

\* the ratings (in half stars) among `ratings` that partition i of n selects
RangeSelected(ratings, i, n) ==
    LET lo == minRange(i, delta(n))
        hi == maxRange(i, delta(n))
    IN  {h \in ratings : RangeWhere(FRating(h), i, lo, hi)}

\* index = int(rating / delta), one less when rating % delta == 0 and index != 0
RangeIndex(rating, numberofpartitions) ==
    LET d == delta(numberofpartitions)
        index == FDivTrunc(FRating(rating), d, numberofpartitions + 1)
    IN  IF FModIsZero(FRating(rating), d, numberofpartitions + 1) /\ index # 0
        THEN index - 1 ELSE index

\* The float arithmetic depends on the rating and the partition count alone:
\* it is worked out once, for the ratings 0, 0.5, ..., 5 a table can hold and
\* the partition counts a build can make.
StoredRatings == 0..10

Counts == 1..(IF MaxN > MaxBulkN THEN MaxN ELSE MaxBulkN)

\* RangeMatches[n][i]: the ratings the WHERE clause of partition i selects
RangeMatches ==
    [n \in Counts |-> [i \in 0..(n - 1) |-> RangeSelected(StoredRatings, i, n)]]

\* RangeIndexes[n][h]: the index rangeinsert computes
RangeIndexes == [n \in Counts |-> [h \in StoredRatings |-> RangeIndex(h, n)]]

(***************************************************************************)
(* The database.  A catalog maps the names of the existing tables to their *)
(* rows, in physical order.  A session is the committed catalog `db`, the  *)
(* writes `tx` its open transaction has made and not yet committed, and    *)
(* `ok`, FALSE once a statement has raised (the statements after it do not *)
(* run, and the writes of the aborted transaction are never committed).    *)
(***************************************************************************)
ratingstablename == <<"ratings">>
RANGE_TABLE_PREFIX == "range_part"
RROBIN_TABLE_PREFIX == "rrobin_part"
roundrobin_metadata == <<"roundrobin_metadata">>

\* PREFIX + str(i)
table_name(prefix, i) == <<prefix, i>>

\* one write of a transaction, applied to a catalog
ApplyWrite(T, w) ==
    CASE w.op = "create" -> [n \in DOMAIN T \cup {w.name} |-> IF n = w.name THEN <<>> ELSE T[n]]
      [] w.op = "drop"   -> [n \in DOMAIN T \ {w.name} |-> T[n]]
      [] w.op = "insert" -> [T EXCEPT ![w.name] = @ \o w.rows]
      [] w.op = "set"    -> [T EXCEPT ![w.name] = w.rows]

RECURSIVE ApplyAll(_, _)
ApplyAll(T, ws) == IF ws = <<>> THEN T ELSE ApplyAll(ApplyWrite(T, Head(ws)), Tail(ws))

\* what the session's statements see: the committed catalog and its own writes
View(S) == ApplyAll(S.db, S.tx)

Session(T, ws) == [db |-> T, tx |-> ws, ok |-> TRUE]

\* cur.execute of a statement that writes `w`, and raises unless `valid`
Execute(S, w, valid) ==
    IF ~S.ok THEN S
    ELSE IF valid THEN [S EXCEPT !.tx = Append(@, w)]
    ELSE [S EXCEPT !.ok = FALSE]

\* CREATE TABLE name (...)
CreateTable(S, name) ==
    Execute(S, [op |-> "create", name |-> name, rows |-> <<>>], name \notin DOMAIN View(S))

\* DROP TABLE IF EXISTS name
DropTableIfExists(S, name) ==
    Execute(S, [op |-> "drop", name |-> name, rows |-> <<>>], TRUE)

\* INSERT INTO name ... (the rows are only read when the statement is valid)
InsertInto(S, name, rows) ==
    Execute(S, [op |-> "insert", name |-> name, rows |-> rows], name \in DOMAIN View(S))

\* con.commit()
Commit(S) == IF S.ok THEN Session(View(S), <<>>) ELSE Session(S.db, <<>>)

\* the transaction is rolled back: what an exception leaves of the session
Rollback(S) == Session(S.db, <<>>)

\* the rows of a table the session sees (none when there is no such table)
Rows(S, name) == IF name \in DOMAIN View(S) THEN View(S)[name] ELSE <<>>

\* cur.execute of a SELECT ... FROM name: raises when there is no such table
SelectFrom(S, name) ==
    IF ~S.ok \/ name \in DOMAIN View(S) THEN S ELSE [S EXCEPT !.ok = FALSE]

\* INSERT INTO name ... SELECT ... FROM source
InsertSelect(S, name, source, rows) == InsertInto(SelectFrom(S, source), name, rows)

(***************************************************************************)
(* count_partitions: SELECT COUNT( * ) FROM pg_stat_user_tables WHERE      *)
(* relname LIKE 'prefix%', then con.commit() on the caller's connection.   *)
(***************************************************************************)
PartitionCount(T, prefix) == Cardinality({n \in DOMAIN T : n[1] = prefix})

\* the count without the commit on the caller's connection
count_partitionsUncommitted(S, prefix) ==
    [S |-> S, count |-> PartitionCount(View(S), prefix)]

count_partitions(S, prefix) ==
    [S |-> Commit(S), count |-> PartitionCount(View(S), prefix)]

(***************************************************************************)
(* The handlers, each as the statements it runs on the session S of its    *)
(* connection.  A handler yields the session it leaves and, for the        *)
(* record of the call: how it ended ("ok": ran to its final commit,        *)
(* "return": an early return, "error": a statement raised), the partition  *)
(* count n it read from the catalog, and the index and cursor value it     *)
(* computed (-1 when it read or computed none).                            *)
(***************************************************************************)
Result(S, outcome, n, index, next_use) ==
    [S |-> S, outcome |-> outcome, n |-> n, index |-> index, next_use |-> next_use]

\* how a handler that ran its statements to the end leaves: the final
\* con.commit(), or the exception of the statement that raised
Finish(S, n, index, next_use) ==
    IF S.ok THEN Result(Commit(S), "ok", n, index, next_use)
    ELSE Result(Rollback(S), "error", n, index, next_use)

\* a line "UserID::MovieID::Rating::Timestamp" split at every ':'
CopyLine(line) == <<line[1], "", line[2], "", line[3], "", line[4]>>

\* ALTER TABLE ... DROP COLUMN extra1, extra2, extra3, timestamp
DropColumns(row) == <<row[1], row[3], row[5]>>

loadratings(S, exists, file) ==
    IF ~exists THEN Result(S, "return", -1, -1, -1)
    ELSE LET S1 == DropTableIfExists(S, ratingstablename)
             S2 == CreateTable(S1, ratingstablename)
             S3 == InsertInto(S2, ratingstablename, [p \in 1..Len(file) |-> CopyLine(file[p])])
             S4 == Execute(S3, [op |-> "set", name |-> ratingstablename,
                                rows |-> [p \in 1..Len(Rows(S3, ratingstablename)) |->
                                             DropColumns(Rows(S3, ratingstablename)[p])]], TRUE)
         IN  Finish(S4, -1, -1, -1)

\* SELECT userid, movieid, rating FROM ratings WHERE <range of partition i>
SelectRange(S, i, n) ==
    SelectSeq(Rows(S, ratingstablename), LAMBDA row : row[3] \in RangeMatches[n][i])

\* the loop of rangepartition from partition i on
RECURSIVE RangeLoop(_, _, _)
RangeLoop(S, n, i) ==
    IF i >= n THEN S
    ELSE LET S1 == CreateTable(S, table_name(RANGE_TABLE_PREFIX, i))
             S2 == InsertSelect(S1, table_name(RANGE_TABLE_PREFIX, i), ratingstablename,
                                SelectRange(S1, i, n))
         IN  RangeLoop(S2, n, i + 1)

rangepartition(S, numberofpartitions) ==
    IF numberofpartitions <= 0 THEN Result(S, "return", -1, -1, -1)
    ELSE Finish(RangeLoop(S, numberofpartitions, 0), -1, -1, -1)

\* SELECT ... FROM (SELECT ..., ROW_NUMBER() OVER() AS rnum FROM ratings)
\* WHERE (rnum-1) % n = i: the rows are numbered in the physical order of
\* the table
\* the selection with rnum % n = i in place of (rnum-1) % n = i
SelectRRobinFromOne(S, i, n) ==
    LET rows == Rows(S, ratingstablename)
        count == Cardinality({rnum \in 1..Len(rows) : rnum % n = i})
    IN  [k \in 1..count |-> rows[IF i = 0 THEN k * n ELSE (k - 1) * n + i]]

SelectRRobin(S, i, n) ==
    LET rows == Rows(S, ratingstablename)
        count == Cardinality({rnum \in 1..Len(rows) : (rnum - 1) % n = i})
    IN  [k \in 1..count |-> rows[(k - 1) * n + i + 1]]

\* the loop of roundrobinpartition from partition i on
RECURSIVE RRobinLoop(_, _, _)
RRobinLoop(S, n, i) ==
    IF i >= n THEN S
    ELSE LET S1 == CreateTable(S, table_name(RROBIN_TABLE_PREFIX, i))
             S2 == InsertSelect(S1, table_name(RROBIN_TABLE_PREFIX, i), ratingstablename,
                                SelectRRobin(S1, i, n))
         IN  RRobinLoop(S2, n, i + 1)

\* Python's a % n for n # 0: the result has the sign of n
PyMod(a, n) == IF n > 0 THEN a % n ELSE -((-a) % (-n))

\* the cursor seeded with 0 in place of total_rows % n
SeedCursorZero(S, n) ==
    LET S1 == SelectFrom(S, ratingstablename)
        S2 == CreateTable(S1, roundrobin_metadata)
    IN  InsertInto(S2, roundrobin_metadata, << <<0>> >>)

\* the end of roundrobinpartition: count the ratings, create and seed the cursor
SeedCursor(S, n) ==
    LET total_rows == Len(Rows(S, ratingstablename))
        S1 == SelectFrom(S, ratingstablename)
        S2 == CreateTable(S1, roundrobin_metadata)
    IN  InsertInto(S2, roundrobin_metadata, << <<PyMod(total_rows, n)>> >>)

\* the build that returns early for 0 only
roundrobinpartitionFromZero(S, numberofpartitions) ==
    IF numberofpartitions = 0 THEN Result(S, "return", -1, -1, -1)
    ELSE Finish(SeedCursor(RRobinLoop(S, numberofpartitions, 0), numberofpartitions),
                -1, -1, -1)

roundrobinpartition(S, numberofpartitions) ==
    IF numberofpartitions <= 0 THEN Result(S, "return", -1, -1, -1)
    ELSE Finish(SeedCursor(RRobinLoop(S, numberofpartitions, 0), numberofpartitions),
                -1, -1, -1)

\* the insert with the partition named with the other family's prefix
rangeinsertCrossed(S, userid, itemid, rating) ==
    IF RatingOutOfRange(rating) THEN Result(S, "return", -1, -1, -1)
    ELSE LET S1 == InsertInto(S, ratingstablename, << <<userid, itemid, rating>> >>)
             cp == count_partitions(S1, RANGE_TABLE_PREFIX)
             index == RangeIndexes[cp.count][rating]
             S2 == InsertInto(cp.S, table_name(RROBIN_TABLE_PREFIX, index),
                              << <<userid, itemid, rating>> >>)
         IN  IF ~S1.ok THEN Result(Rollback(S1), "error", -1, -1, -1)
             ELSE IF cp.count <= 0 THEN Result(cp.S, "return", cp.count, -1, -1)
             ELSE Finish(S2, cp.count, index, -1)

rangeinsert(S, userid, itemid, rating) ==
    IF RatingOutOfRange(rating) THEN Result(S, "return", -1, -1, -1)
    ELSE LET S1 == InsertInto(S, ratingstablename, << <<userid, itemid, rating>> >>)
             cp == count_partitions(S1, RANGE_TABLE_PREFIX)
             index == RangeIndexes[cp.count][rating]
             S2 == InsertInto(cp.S, table_name(RANGE_TABLE_PREFIX, index),
                              << <<userid, itemid, rating>> >>)
         IN  IF ~S1.ok THEN Result(Rollback(S1), "error", -1, -1, -1)
             ELSE IF cp.count <= 0 THEN Result(cp.S, "return", cp.count, -1, -1)
             ELSE Finish(S2, cp.count, index, -1)

\* SELECT next_use_partition FROM roundrobin_metadata FOR UPDATE; fetchone()[0]
\* raises when the table or its row is missing
CursorReadable(S) == Rows(S, roundrobin_metadata) # <<>>

next_use_partition(S) == Rows(S, roundrobin_metadata)[1][1]

\* the cursor kept below the number of partitions
UpdateCursorWrapped(S) ==
    Execute(S, [op |-> "set", name |-> roundrobin_metadata,
                rows |-> [k \in 1..Len(Rows(S, roundrobin_metadata)) |->
                             <<(Rows(S, roundrobin_metadata)[k][1] + 1)
                                  % PartitionCount(View(S), RROBIN_TABLE_PREFIX)>>]],
            roundrobin_metadata \in DOMAIN View(S))

\* UPDATE roundrobin_metadata SET next_use_partition = next_use_partition + 1
UpdateCursor(S) ==
    Execute(S, [op |-> "set", name |-> roundrobin_metadata,
                rows |-> [k \in 1..Len(Rows(S, roundrobin_metadata)) |->
                             <<Rows(S, roundrobin_metadata)[k][1] + 1>>]],
            roundrobin_metadata \in DOMAIN View(S))

roundrobininsert(S, userid, itemid, rating) ==
    IF RatingOutOfRange(rating) THEN Result(S, "return", -1, -1, -1)
    ELSE LET S1 == InsertInto(S, ratingstablename, << <<userid, itemid, rating>> >>)
             cp == count_partitions(S1, RROBIN_TABLE_PREFIX)
             next_use == next_use_partition(cp.S)
             S2 == UpdateCursor(cp.S)
             index == next_use % cp.count
             S3 == InsertInto(S2, table_name(RROBIN_TABLE_PREFIX, index),
                              << <<userid, itemid, rating>> >>)
         IN  IF ~S1.ok THEN Result(Rollback(S1), "error", -1, -1, -1)
             ELSE IF cp.count <= 0 THEN Result(cp.S, "return", cp.count, -1, -1)
             ELSE IF ~CursorReadable(cp.S) THEN Result(Rollback(cp.S), "error", cp.count, -1, -1)
             ELSE Finish(S3, cp.count, index, next_use)

(***************************************************************************)
(* The inputs.                                                             *)
(***************************************************************************)
\* the rating of line p of the ratings file, in half stars
FileRatings == <<0, 2, 5, 10, 7, 3, 9>>

FileLine(p) == <<p, 1, FileRatings[((p - 1) % Len(FileRatings)) + 1], p>>

\* the ratings files: the first T lines of the same file; the calls of one
\* caller start from a short file or from the longest one
File(T) == [p \in 1..T |-> FileLine(p)]
Files == {File(T) : T \in 0..MaxRows} \cup {File(MaxBulkRows)}
BulkFiles == {File(T) : T \in 0..MaxBulkRows}

\* numberofpartitions handed to the bulk builds
PartitionCounts == -1..MaxN
BulkPartitionCounts == 1..MaxBulkN

\* the records handed to the inserts: -0.5, 0, 5.0 and 5.5 stars
InsertUsers == {1}
InsertItems == {1}
InsertRatings == {-1, 0, 10, 11}

Prefixes == {RANGE_TABLE_PREFIX, RROBIN_TABLE_PREFIX}

NoTables == [n \in {} |-> <<>>]

(***************************************************************************)
(* The state.                                                              *)
(***************************************************************************)
VARIABLES
    tables,   \* the committed catalog
    last,     \* the record of the last call that returned or raised
    hist,     \* T: the ratings counted by the round-robin build (-1: none);
              \* routed: <<cursor read, index>> of every round-robin insert that
              \* has read the cursor since, in the order of the reads;
              \* inserts: the inserts that wrote the Base Dataset
    conn,     \* per connection of the concurrent runs: where its call stands
    lock      \* the connection holding the row lock of the cursor (0: none)

vars == <<tables, last, hist, conn, lock>>

Conns == 1..NConns

Idle == [pc |-> "idle", tx |-> <<>>, userid |-> -1, itemid |-> -1, rating |-> -1,
         n |-> -1, next_use |-> -1, i |-> -1, total_rows |-> -1]

Call(op, r, userid, itemid, rating) ==
    [op |-> op, outcome |-> r.outcome, n |-> r.n, index |-> r.index,
     next_use |-> r.next_use, userid |-> userid, itemid |-> itemid, rating |-> rating]

NoCall == [op |-> "none", outcome |-> "none", n |-> -1, index |-> -1,
           next_use |-> -1, userid |-> -1, itemid |-> -1, rating |-> -1]

NoHist == [T |-> -1, routed |-> <<>>, inserts |-> 0]

\* the Base Dataset and its size
Base == IF ratingstablename \in DOMAIN tables THEN tables[ratingstablename] ELSE <<>>

Init ==
    /\ tables = NoTables
    /\ last = NoCall
    /\ hist = NoHist
    /\ conn = [c \in Conns |-> Idle]
    /\ lock = 0

(***************************************************************************)
(* The calls of one caller, one after the other.                           *)
(***************************************************************************)
\* the initial load: the ratings are loaded once, before anything else exists
LoadRatings(exists, file) ==
    /\ tables = NoTables
    /\ LET r == loadratings(Session(tables, <<>>), exists, file)
       IN  /\ tables' = r.S.db
           /\ last' = Call("loadratings", r, -1, -1, -1)
    /\ UNCHANGED <<hist, conn, lock>>

RangePartition(numberofpartitions) ==
    /\ LET r == rangepartition(Session(tables, <<>>), numberofpartitions)
       IN  /\ tables' = r.S.db
           /\ last' = Call("rangepartition", r, -1, -1, -1)
    /\ UNCHANGED <<hist, conn, lock>>

RoundRobinPartition(numberofpartitions) ==
    /\ LET r == roundrobinpartition(Session(tables, <<>>), numberofpartitions)
       IN  /\ tables' = r.S.db
           /\ last' = Call("roundrobinpartition", r, -1, -1, -1)
           /\ hist' = IF r.outcome = "ok" THEN [hist EXCEPT !.T = Len(Base), !.routed = <<>>]
                      ELSE hist
    /\ UNCHANGED <<conn, lock>>

\* whether the call wrote the Base Dataset
Wrote(T) == IF T = tables THEN 0 ELSE 1

RangeInsert(userid, itemid, rating) ==
    /\ hist.inserts < MaxInserts
    /\ LET r == rangeinsert(Session(tables, <<>>), userid, itemid, rating)
       IN  /\ tables' = r.S.db
           /\ last' = Call("rangeinsert", r, userid, itemid, rating)
           /\ hist' = [hist EXCEPT !.inserts = @ + Wrote(r.S.db)]
    /\ UNCHANGED <<conn, lock>>

RoundRobinInsert(userid, itemid, rating) ==
    /\ hist.inserts < MaxInserts
    /\ LET r == roundrobininsert(Session(tables, <<>>), userid, itemid, rating)
       IN  /\ tables' = r.S.db
           /\ last' = Call("roundrobininsert", r, userid, itemid, rating)
           /\ hist' = [hist EXCEPT !.inserts = @ + Wrote(r.S.db),
                                   !.routed = IF r.next_use # -1
                                              THEN Append(@, <<r.next_use, r.index>>) ELSE @]
    /\ UNCHANGED <<conn, lock>>

CountPartitions(prefix) ==
    /\ LET cp == count_partitions(Session(tables, <<>>), prefix)
       IN  /\ tables' = cp.S.db
           /\ last' = Call("count_partitions", Result(cp.S, "ok", cp.count, -1, -1), -1, -1, -1)
    /\ UNCHANGED <<hist, conn, lock>>

Next ==
    \/ \E exists \in BOOLEAN, file \in Files : LoadRatings(exists, file)
    \/ \E n \in PartitionCounts : RangePartition(n)
    \/ \E n \in PartitionCounts : RoundRobinPartition(n)
    \/ \E u \in InsertUsers, m \in InsertItems, r \in InsertRatings : RangeInsert(u, m, r)
    \/ \E u \in InsertUsers, m \in InsertItems, r \in InsertRatings : RoundRobinInsert(u, m, r)
    \/ \E prefix \in Prefixes : CountPartitions(prefix)

Spec == Init /\ [][Next]_vars

(***************************************************************************)
(* The bulk builds alone, each run once on a loaded Base Dataset, up to    *)
(* MaxBulkN partitions.                                                    *)
(***************************************************************************)
BulkInit ==
    /\ tables \in {loadratings(Session(NoTables, <<>>), TRUE, file).S.db : file \in BulkFiles}
    /\ last = NoCall
    /\ hist = NoHist
    /\ conn = [c \in Conns |-> Idle]
    /\ lock = 0

BulkNext ==
    \/ \E n \in BulkPartitionCounts :
          PartitionCount(tables, RANGE_TABLE_PREFIX) = 0 /\ RangePartition(n)
    \/ \E n \in BulkPartitionCounts :
          PartitionCount(tables, RROBIN_TABLE_PREFIX) = 0 /\ RoundRobinPartition(n)

BulkSpec == BulkInit /\ [][BulkNext]_vars

(***************************************************************************)
(* The range inserts of one caller on a loaded and range-partitioned Base  *)
(* Dataset, up to MaxBulkN partitions, with every rating from 0 to 5 in    *)
(* half stars.                                                             *)
(***************************************************************************)
RangeInsertInit ==
    /\ tables \in {rangepartition(
                       Session(loadratings(Session(NoTables, <<>>), TRUE, file).S.db, <<>>),
                       n).S.db : file \in Files, n \in BulkPartitionCounts}
    /\ last = NoCall
    /\ hist = NoHist
    /\ conn = [c \in Conns |-> Idle]
    /\ lock = 0

RangeInsertNext ==
    \E u \in InsertUsers, m \in InsertItems, r \in StoredRatings : RangeInsert(u, m, r)

RangeInsertSpec == RangeInsertInit /\ [][RangeInsertNext]_vars

(***************************************************************************)
(* Concurrent callers of roundrobininsert, each on its own connection, one *)
(* statement at a time.  Each statement sees what is committed when it     *)
(* runs and the writes of its own transaction (READ COMMITTED).  SELECT    *)
(* ... FOR UPDATE waits while another transaction holds the lock of the    *)
(* cursor row, takes it, and reads the row as last committed; the lock is  *)
(* held until the transaction ends.                                        *)
(***************************************************************************)
Sess(c) == Session(tables, conn[c].tx)

\* the call on connection c returns or raises: its record is kept, its
\* connection is idle again, and it leaves the session S
Return(c, S, outcome, index) ==
    /\ tables' = S.db
    /\ conn' = [conn EXCEPT ![c] = Idle]
    /\ last' = [op |-> "roundrobininsert", outcome |-> outcome, n |-> conn[c].n,
                index |-> index, next_use |-> conn[c].next_use,
                userid |-> conn[c].userid, itemid |-> conn[c].itemid,
                rating |-> conn[c].rating]

\* lines 251-259: the rating check and INSERT INTO ratings
RRBegin(c, userid, itemid, rating) ==
    /\ conn[c].pc = "idle"
    /\ hist.inserts < MaxInserts
    /\ LET S1 == InsertInto(Sess(c), ratingstablename, << <<userid, itemid, rating>> >>)
           args == [conn[c] EXCEPT !.userid = userid, !.itemid = itemid, !.rating = rating]
       IN  IF RatingOutOfRange(rating)
           THEN /\ last' = [NoCall EXCEPT !.op = "roundrobininsert", !.outcome = "return",
                                          !.userid = userid, !.itemid = itemid,
                                          !.rating = rating]
                /\ UNCHANGED <<tables, hist, conn, lock>>
           ELSE IF ~S1.ok
           THEN /\ last' = [NoCall EXCEPT !.op = "roundrobininsert", !.outcome = "error",
                                          !.userid = userid, !.itemid = itemid,
                                          !.rating = rating]
                /\ UNCHANGED <<tables, hist, conn, lock>>
           ELSE /\ conn' = [conn EXCEPT ![c] = [args EXCEPT !.pc = "count", !.tx = S1.tx]]
                /\ hist' = [hist EXCEPT !.inserts = @ + 1]
                /\ UNCHANGED <<tables, last, lock>>

\* line 265: count_partitions (with its commit), and the return of line 267
RRCount(c) ==
    /\ conn[c].pc = "count"
    /\ LET cp == count_partitions(Sess(c), RROBIN_TABLE_PREFIX)
       IN  IF cp.count <= 0
           THEN /\ tables' = cp.S.db
                /\ conn' = [conn EXCEPT ![c] = Idle]
                /\ last' = [op |-> "roundrobininsert", outcome |-> "return", n |-> cp.count,
                            index |-> -1, next_use |-> -1, userid |-> conn[c].userid,
                            itemid |-> conn[c].itemid, rating |-> conn[c].rating]
           ELSE /\ tables' = cp.S.db
                /\ conn' = [conn EXCEPT ![c].pc = "select", ![c].tx = cp.S.tx,
                                        ![c].n = cp.count]
                /\ UNCHANGED last
    /\ UNCHANGED <<hist, lock>>

\* a SELECT without FOR UPDATE: it never waits
LockIgnored(c) == c \in Conns

\* whether connection c may take the row lock of the cursor
LockFree(c) == lock \in {0, c}

\* lines 269-270: SELECT next_use_partition ... FOR UPDATE and fetchone()[0]
RRSelect(c) ==
    /\ conn[c].pc = "select"
    /\ IF ~CursorReadable(Sess(c))
       THEN /\ Return(c, Rollback(Sess(c)), "error", -1)
            /\ UNCHANGED <<hist, lock>>
       ELSE /\ LockFree(c)
            /\ lock' = c
            /\ conn' = [conn EXCEPT ![c].pc = "update",
                                    ![c].next_use = next_use_partition(Sess(c))]
            /\ hist' = [hist EXCEPT !.routed =
                           Append(@, <<next_use_partition(Sess(c)),
                                       next_use_partition(Sess(c)) % conn[c].n>>)]
            /\ UNCHANGED <<tables, last>>

\* line 271: UPDATE roundrobin_metadata SET next_use_partition = next_use_partition + 1
RRUpdate(c) ==
    /\ conn[c].pc = "update"
    /\ conn' = [conn EXCEPT ![c].pc = "insert", ![c].tx = UpdateCursor(Sess(c)).tx]
    /\ UNCHANGED <<tables, last, hist, lock>>

\* lines 274-278: the index and INSERT INTO rrobin_part<index>
RRInsert(c) ==
    /\ conn[c].pc = "insert"
    /\ LET index == conn[c].next_use % conn[c].n
           S1 == InsertInto(Sess(c), table_name(RROBIN_TABLE_PREFIX, index),
                            << <<conn[c].userid, conn[c].itemid, conn[c].rating>> >>)
       IN  IF S1.ok
           THEN /\ conn' = [conn EXCEPT ![c].pc = "commit", ![c].tx = S1.tx]
                /\ UNCHANGED <<tables, last, lock>>
           ELSE /\ Return(c, Rollback(S1), "error", index)
                /\ lock' = 0
    /\ UNCHANGED hist

\* a commit after which the row lock stays with the connection
RRCommitKeepingLock(c) ==
    /\ conn[c].pc = "commit"
    /\ Return(c, Commit(Sess(c)), "ok", conn[c].next_use % conn[c].n)
    /\ UNCHANGED <<hist, lock>>

\* lines 280-281: con.commit(), which ends the transaction and frees the lock
RRCommit(c) ==
    /\ conn[c].pc = "commit"
    /\ Return(c, Commit(Sess(c)), "ok", conn[c].next_use % conn[c].n)
    /\ lock' = 0
    /\ UNCHANGED hist

\* the connections start on a loaded Base Dataset, round-robin partitioned or not
ConcInit ==
    /\ \E file \in Files, n \in PartitionCounts :
          /\ tables = roundrobinpartition(
                          Session(loadratings(Session(NoTables, <<>>), TRUE, file).S.db, <<>>),
                          n).S.db
          /\ hist = [T |-> IF n > 0 THEN Len(file) ELSE -1, routed |-> <<>>, inserts |-> 0]
    /\ last = NoCall
    /\ conn = [c \in Conns |-> Idle]
    /\ lock = 0

ConcNext ==
    \E c \in Conns :
        \/ \E u \in InsertUsers, m \in InsertItems, r \in InsertRatings : RRBegin(c, u, m, r)
        \/ RRCount(c)
        \/ RRSelect(c)
        \/ RRUpdate(c)
        \/ RRInsert(c)
        \/ RRCommit(c)

ConcSpec == ConcInit /\ [][ConcNext]_vars

\* fair scheduling: a call that can take its next step, and stays able to,
\* takes it; nothing obliges a caller to start a call
ConcFairness ==
    \A c \in Conns :
        /\ WF_vars(RRCount(c))
        /\ WF_vars(RRSelect(c))
        /\ WF_vars(RRUpdate(c))
        /\ WF_vars(RRInsert(c))
        /\ WF_vars(RRCommit(c))

ConcFairSpec == ConcSpec /\ ConcFairness

(***************************************************************************)
(* roundrobinpartition on a connection of its own, one statement at a      *)
(* time, while other connections call roundrobininsert.  The build runs    *)
(* in one transaction: what it creates is seen by the other connections    *)
(* only after the commit of line 169.                                      *)
(***************************************************************************)
\* the build on connection c returns or raises: the session S is what it leaves
BuildReturn(c, S, outcome) ==
    /\ tables' = S.db
    /\ conn' = [conn EXCEPT ![c] = Idle]
    /\ last' = [NoCall EXCEPT !.op = "roundrobinpartition", !.outcome = outcome]

Building(c) == conn[c].pc \in {"build", "seed", "buildcommit"}

\* lines 136-147: the check of N and the start of the loop; one build runs
\* at a time
RPBegin(c, numberofpartitions) ==
    /\ conn[c].pc = "idle"
    /\ \A x \in Conns : ~Building(x)
    /\ IF numberofpartitions <= 0
       THEN /\ last' = [NoCall EXCEPT !.op = "roundrobinpartition", !.outcome = "return"]
            /\ UNCHANGED <<tables, conn>>
       ELSE /\ conn' = [conn EXCEPT ![c].pc = "build", ![c].n = numberofpartitions,
                                    ![c].i = 0]
            /\ UNCHANGED <<tables, last>>
    /\ UNCHANGED <<hist, lock>>

\* a loop body that commits what it wrote
RPLoopCommitting(c) ==
    /\ conn[c].pc = "build"
    /\ LET i == conn[c].i
           S1 == CreateTable(Sess(c), table_name(RROBIN_TABLE_PREFIX, i))
           S2 == InsertSelect(S1, table_name(RROBIN_TABLE_PREFIX, i), ratingstablename,
                              SelectRRobin(S1, i, conn[c].n))
       IN  IF S2.ok
           THEN /\ conn' = [conn EXCEPT ![c].tx = <<>>, ![c].i = i + 1,
                               ![c].pc = IF i + 1 >= conn[c].n THEN "seed" ELSE "build"]
                /\ tables' = Commit(S2).db
                /\ UNCHANGED last
           ELSE BuildReturn(c, Rollback(S2), "error")
    /\ UNCHANGED <<hist, lock>>

\* lines 148-156: CREATE TABLE rrobin_part<i> and its INSERT ... SELECT
RPLoop(c) ==
    /\ conn[c].pc = "build"
    /\ LET i == conn[c].i
           S1 == CreateTable(Sess(c), table_name(RROBIN_TABLE_PREFIX, i))
           S2 == InsertSelect(S1, table_name(RROBIN_TABLE_PREFIX, i), ratingstablename,
                              SelectRRobin(S1, i, conn[c].n))
       IN  IF S2.ok
           THEN /\ conn' = [conn EXCEPT ![c].tx = S2.tx, ![c].i = i + 1,
                               ![c].pc = IF i + 1 >= conn[c].n THEN "seed" ELSE "build"]
                /\ UNCHANGED <<tables, last>>
           ELSE BuildReturn(c, Rollback(S2), "error")
    /\ UNCHANGED <<hist, lock>>

\* lines 161-167: the count of the ratings and the creation and seed of the cursor
RPSeed(c) ==
    /\ conn[c].pc = "seed"
    /\ LET S1 == SeedCursor(Sess(c), conn[c].n)
       IN  IF S1.ok
           THEN /\ conn' = [conn EXCEPT ![c].tx = S1.tx, ![c].pc = "buildcommit",
                               ![c].total_rows = Len(Rows(Sess(c), ratingstablename))]
                /\ UNCHANGED <<tables, last>>
           ELSE BuildReturn(c, Rollback(S1), "error")
    /\ UNCHANGED <<hist, lock>>

\* lines 168-169: con.commit()
RPCommit(c) ==
    /\ conn[c].pc = "buildcommit"
    /\ BuildReturn(c, Commit(Sess(c)), "ok")
    /\ hist' = [hist EXCEPT !.T = conn[c].total_rows, !.routed = <<>>]
    /\ UNCHANGED lock

\* the connections start on a loaded Base Dataset without partitions
BuildConcInit ==
    /\ tables \in {loadratings(Session(NoTables, <<>>), TRUE, file).S.db : file \in Files}
    /\ last = NoCall
    /\ hist = NoHist
    /\ conn = [c \in Conns |-> Idle]
    /\ lock = 0

\* the builds are called on the first connection, the inserts on any
BuildConcNext ==
    \/ \E n \in PartitionCounts : RPBegin(1, n)
    \/ \E c \in Conns :
        \/ RPLoop(c)
        \/ RPSeed(c)
        \/ RPCommit(c)
        \/ \E u \in InsertUsers, m \in InsertItems, r \in InsertRatings : RRBegin(c, u, m, r)
        \/ RRCount(c)
        \/ RRSelect(c)
        \/ RRUpdate(c)
        \/ RRInsert(c)
        \/ RRCommit(c)

BuildConcSpec == BuildConcInit /\ [][BuildConcNext]_vars

(***************************************************************************)
(* The vocabulary of the properties.                                       *)
(***************************************************************************)
Range(s) == {s[k] : k \in 1..Len(s)}

Count(s, row) == Cardinality({k \in 1..Len(s) : s[k] = row})

\* the same records, each as many times
SameBag(s, t) ==
    /\ Len(s) = Len(t)
    /\ \A k \in 1..Len(s) : Count(s, s[k]) = Count(t, s[k])

RECURSIVE Flatten(_, _)
Flatten(T, names) ==
    IF names = {} THEN <<>>
    ELSE LET name == CHOOSE x \in names : TRUE
         IN  T[name] \o Flatten(T, names \ {name})

\* the records of all the partition tables of a family
FamilyRows(T, prefix) == Flatten(T, {name \in DOMAIN T : name[1] = prefix})

BaseOf(T) == IF ratingstablename \in DOMAIN T THEN T[ratingstablename] ELSE <<>>

\* the committed value of the cursor
Cursor == tables[roundrobin_metadata][1][1]

RRobinN == PartitionCount(tables, RROBIN_TABLE_PREFIX)
RangeN == PartitionCount(tables, RANGE_TABLE_PREFIX)

InsertOf(prefix) == IF prefix = RANGE_TABLE_PREFIX THEN "rangeinsert" ELSE "roundrobininsert"

\* the partitions in which the range build with n partitions puts a rating
BulkIndexes(rating, n) == {i \in 0..(n - 1) : rating \in RangeMatches[n][i]}

(***************************************************************************)
(* C1.  After the build of a family and any sequence of completed inserts  *)
(* of either kind, the records of all the partitions of each built family  *)
(* are the records of the Base Dataset, each as many times.                *)
(***************************************************************************)
C1_UnionIsBase ==
    last.outcome # "error" =>
        \A prefix \in Prefixes :
            PartitionCount(tables, prefix) > 0 => SameBag(FamilyRows(tables, prefix), Base)

(***************************************************************************)
(* C2.  A call writes all or nothing: an insert that leaves its record     *)
(* committed in the Base Dataset leaves it committed in a partition of its *)
(* family too, unless the catalog reports no partition of that family.     *)
(***************************************************************************)
C2_AllOrNothing ==
    [][\A prefix \in Prefixes :
          (last'.op = InsertOf(prefix) /\ Len(BaseOf(tables')) = Len(Base) + 1)
              => \/ PartitionCount(tables', prefix) = 0
                 \/ Len(FamilyRows(tables', prefix)) = Len(FamilyRows(tables, prefix)) + 1]_vars

(***************************************************************************)
(* C3.  Concurrent round-robin inserts read the cursor one after the       *)
(* other: from the cursor value c, the reads are c, c+1, ... each once,    *)
(* and when all the calls have ended the cursor is c plus their number.    *)
(***************************************************************************)
C3_SerializedCursor ==
    hist.T # -1 =>
        LET c == hist.T % RRobinN
        IN  /\ \A k \in 1..Len(hist.routed) : hist.routed[k][1] = c + k - 1
            /\ (\A x \in Conns : conn[x].pc = "idle") => Cursor = c + Len(hist.routed)

\* one call has read the cursor and holds its lock, not yet committed, while
\* the call of another connection waits at its SELECT
C3_Witness ==
    /\ hist.T # -1
    /\ RRobinN >= 2
    /\ Len(hist.routed) = 1
    /\ \E x, y \in Conns :
          /\ lock = x
          /\ conn[x].pc = "commit"
          /\ conn[y].pc = "select"

(***************************************************************************)
(* C4.  After rangepartition(N), N > 0, each record of the Base Dataset is *)
(* in exactly one of range_part0 .. range_part(N-1), and the records of    *)
(* the partitions together are those of the Base Dataset.                  *)
(***************************************************************************)
C4_RangeBuildExact ==
    RangeN > 0 =>
        /\ \A p \in 1..Len(Base) :
              Cardinality({i \in 0..(RangeN - 1) :
                              Base[p] \in Range(tables[table_name(RANGE_TABLE_PREFIX, i)])}) = 1
        /\ SameBag(FamilyRows(tables, RANGE_TABLE_PREFIX), Base)

(***************************************************************************)
(* C5.  The index rangeinsert computes for a rating with N partitions is   *)
(* the index of the partition into which rangepartition(N) puts a record   *)
(* of that rating.                                                         *)
(***************************************************************************)
C5_InsertIndexIsBulkIndex ==
    (last.op = "rangeinsert" /\ last.n > 0 /\ last.index # -1)
        => BulkIndexes(last.rating, last.n) = {last.index}

(***************************************************************************)
(* C6.  The index rangeinsert computes is in 0 .. N-1; it is 0 for the     *)
(* rating 0 and N-1 for the rating 5.                                      *)
(***************************************************************************)
C6_IndexInRange ==
    (last.op = "rangeinsert" /\ last.n > 0 /\ last.index # -1)
        => /\ last.index \in 0..(last.n - 1)
           /\ last.rating = 0 => last.index = 0
           /\ last.rating = 10 => last.index = last.n - 1

(***************************************************************************)
(* C7.  After roundrobinpartition(N), N > 0, the record at position p of   *)
(* the Base Dataset is in rrobin_part((p-1) mod N) and in no other         *)
(* partition, and the sizes of two partitions differ by at most one.       *)
(***************************************************************************)
C7_RoundRobinBuild ==
    (hist.T # -1 /\ hist.routed = <<>> /\ Len(Base) = hist.T) =>
        /\ \A p \in 1..Len(Base) : \A i \in 0..(RRobinN - 1) :
              (Base[p] \in Range(tables[table_name(RROBIN_TABLE_PREFIX, i)]))
                  <=> (i = (p - 1) % RRobinN)
        /\ \A p \in 1..Len(Base) :
              tables[table_name(RROBIN_TABLE_PREFIX, (p - 1) % RRobinN)][((p - 1) \div RRobinN) + 1]
                  = Base[p]
        /\ Len(FamilyRows(tables, RROBIN_TABLE_PREFIX)) = Len(Base)
        /\ \A i, j \in 0..(RRobinN - 1) :
              Len(tables[table_name(RROBIN_TABLE_PREFIX, i)])
                  - Len(tables[table_name(RROBIN_TABLE_PREFIX, j)]) <= 1

\* seven records dealt to three partitions
C7_Witness ==
    /\ last.op = "roundrobinpartition"
    /\ last.outcome = "ok"
    /\ RRobinN = 3
    /\ Len(Base) = 7
    /\ Len(tables[table_name(RROBIN_TABLE_PREFIX, 0)]) = 3

(***************************************************************************)
(* C8.  From the cursor value c, M round-robin inserts one after the other *)
(* put their records in the partitions c mod N, (c+1) mod N, ...,          *)
(* (c+M-1) mod N in that order and leave the cursor at c + M.              *)
(***************************************************************************)
C8_ConsecutiveInserts ==
    (hist.T # -1 /\ hist.routed # <<>>) =>
        LET c == hist.routed[1][1]
            M == Len(hist.routed)
        IN  /\ \A k \in 1..M : hist.routed[k] = <<c + k - 1, (c + k - 1) % RRobinN>>
            /\ Cursor = c + M
            /\ \A i \in 0..(RRobinN - 1) :
                  Len(tables[table_name(RROBIN_TABLE_PREFIX, i)])
                      = Cardinality({p \in 1..hist.T : (p - 1) % RRobinN = i})
                        + Cardinality({k \in 1..M : (c + k - 1) % RRobinN = i})
            /\ (last.op = "roundrobininsert" /\ last.outcome = "ok") =>
                  LET part == tables[table_name(RROBIN_TABLE_PREFIX, (c + M - 1) % RRobinN)]
                  IN  part[Len(part)] = <<last.userid, last.itemid, last.rating>>

\* two inserts in a row, the second wrapping around to partition 0
C8_Witness ==
    /\ hist.T # -1
    /\ RRobinN = 2
    /\ hist.routed = << <<1, 1>>, <<2, 0>> >>
    /\ Cursor = 3
    /\ last.op = "roundrobininsert"
    /\ last.outcome = "ok"

(***************************************************************************)
(* C9.  roundrobinpartition(N) on T records seeds the cursor with T mod N; *)
(* the first round-robin insert after it puts its record in partition      *)
(* T mod N and leaves the cursor at (T mod N) + 1.                         *)
(***************************************************************************)
C9_CursorSeed ==
    /\ (last.op = "roundrobinpartition" /\ last.outcome = "ok") => Cursor = Len(Base) % RRobinN
    /\ (hist.T # -1 /\ Len(hist.routed) >= 1)
          => hist.routed[1] = <<hist.T % RRobinN, hist.T % RRobinN>>
    /\ (hist.T # -1 /\ Len(hist.routed) = 1) => Cursor = (hist.T % RRobinN) + 1

\* N = 3 and T = 7: the first insert goes to partition 1, the cursor to 2
C9_Witness ==
    /\ RRobinN = 3
    /\ hist.T = 7
    /\ hist.routed = << <<1, 1>> >>
    /\ Cursor = 2
    /\ last.op = "roundrobininsert"
    /\ last.outcome = "ok"
    /\ Len(tables[table_name(RROBIN_TABLE_PREFIX, 1)]) = 3

(***************************************************************************)
(* C10.  An insert of either kind with a rating below 0 or above 5 changes *)
(* no table and raises no error.                                           *)
(***************************************************************************)
C10_InvalidRatingIgnored ==
    [][(last'.op \in {"rangeinsert", "roundrobininsert"}
          /\ (last'.rating < 0 \/ last'.rating > 10))
          => (tables' = tables /\ last'.outcome = "return")]_vars

\* a rating of 5.5 handed to rangeinsert while both families are built
C10_Witness ==
    /\ last.op = "rangeinsert"
    /\ last.rating = 11
    /\ last.outcome = "return"
    /\ RangeN > 0
    /\ RRobinN > 0
    /\ Len(Base) > 0

(***************************************************************************)
(* C11.  With no partition of its family in the catalog, an insert with a  *)
(* valid rating commits its record to the Base Dataset, writes no other    *)
(* table (no partition, not the cursor) and raises no error.               *)
(***************************************************************************)
C11_NoPartitionsExist ==
    [][\A prefix \in Prefixes :
          (/\ last'.op = InsertOf(prefix)
           /\ last'.rating \in 0..10
           /\ ratingstablename \in DOMAIN tables
           /\ PartitionCount(tables, prefix) = 0)
              => /\ last'.outcome = "return"
                 /\ last'.next_use = -1
                 /\ tables' = [tables EXCEPT ![ratingstablename] =
                                  Append(@, <<last'.userid, last'.itemid, last'.rating>>)]]_vars

\* a round-robin insert of rating 5.0 that found no rrobin partition while
\* the range family is built
C11_Witness ==
    /\ last.op = "roundrobininsert"
    /\ last.outcome = "return"
    /\ last.n = 0
    /\ last.rating = 10
    /\ RangeN > 0
    /\ Len(Base) > 0
    /\ Base[Len(Base)] = <<last.userid, last.itemid, last.rating>>

\* whether a rating (in half stars) lies in the interval of partition i of
\* n: [0, delta] for i = 0 and (i*delta, (i+1)*delta] otherwise, delta = 5/n
InInterval(rating, i, n) ==
    IF i = 0 THEN 0 <= rating /\ rating * n <= 10
    ELSE i * 10 < rating * n /\ rating * n <= (i + 1) * 10

(***************************************************************************)
(* C12.  With N > 0 range partitions, a completed rangeinsert of a valid   *)
(* rating adds its record once to the Base Dataset and once to the range   *)
(* partition whose interval contains the rating, and changes no other      *)
(* range partition.                                                        *)
(***************************************************************************)
C12_RangeInsertFrame ==
    [][(last'.op = "rangeinsert" /\ last'.outcome = "ok" /\ RangeN > 0) =>
          LET rec == <<last'.userid, last'.itemid, last'.rating>>
          IN  /\ BaseOf(tables') = Append(Base, rec)
              /\ \E i \in 0..(RangeN - 1) :
                    /\ InInterval(last'.rating, i, RangeN)
                    /\ tables'[table_name(RANGE_TABLE_PREFIX, i)]
                          = Append(tables[table_name(RANGE_TABLE_PREFIX, i)], rec)
                    /\ \A j \in 0..(RangeN - 1) \ {i} :
                          tables'[table_name(RANGE_TABLE_PREFIX, j)]
                              = tables[table_name(RANGE_TABLE_PREFIX, j)]]_vars

(***************************************************************************)
(* C13.  A bulk build called with N <= 0 returns without an error and      *)
(* changes nothing: no partition table and no cursor are created, the      *)
(* Base Dataset and the partition counts of the catalog stay as they were. *)
(***************************************************************************)
C13_NonPositiveN ==
    [][\A n \in PartitionCounts :
          (n <= 0 /\ (RangePartition(n) \/ RoundRobinPartition(n)))
              => (tables' = tables /\ last'.outcome = "return")]_vars

\* roundrobinpartition has returned early on a loaded, range-partitioned
\* Base Dataset with no round-robin partition and no cursor
C13_Witness ==
    /\ last.op = "roundrobinpartition"
    /\ last.outcome = "return"
    /\ Len(Base) > 0
    /\ RangeN > 0
    /\ RRobinN = 0
    /\ roundrobin_metadata \notin DOMAIN tables

(***************************************************************************)
(* C14.  After rangepartition(N), N > 0, partition 0 holds exactly the     *)
(* records of the Base Dataset with 0 <= rating <= delta and partition     *)
(* i > 0 exactly those with i*delta < rating <= (i+1)*delta, delta = 5/N,  *)
(* in the order of the Base Dataset.                                       *)
(***************************************************************************)
C14_RangeIntervals ==
    RangeN > 0 =>
        \A i \in 0..(RangeN - 1) :
            tables[table_name(RANGE_TABLE_PREFIX, i)]
                = SelectSeq(Base, LAMBDA row : InInterval(row[3], i, RangeN))

\* whether the cursor row exists in a catalog, and its value
HasCursor(T) == roundrobin_metadata \in DOMAIN T /\ T[roundrobin_metadata] # <<>>

CursorOf(T) == T[roundrobin_metadata][1][1]

(***************************************************************************)
(* C15.  Once the cursor exists it stays: a round-robin insert of a valid  *)
(* rating with N > 0 adds exactly 1 to the stored value, with no modulo,   *)
(* and no other call changes it; it never decreases and is never reset.    *)
(***************************************************************************)
C15_CursorMonotonic ==
    [][HasCursor(tables) =>
          /\ HasCursor(tables')
          /\ Len(tables'[roundrobin_metadata]) = 1
          /\ CursorOf(tables') \in {CursorOf(tables), CursorOf(tables) + 1}
          /\ CursorOf(tables') # CursorOf(tables) => last'.op = "roundrobininsert"
          /\ (last'.op = "roundrobininsert" /\ last'.rating \in 0..10 /\ RRobinN > 0)
                => CursorOf(tables') = CursorOf(tables) + 1]_vars

\* two inserts after a build with one partition: the cursor has passed N
C15_Witness ==
    /\ last.op = "roundrobininsert"
    /\ last.outcome = "ok"
    /\ RRobinN = 1
    /\ HasCursor(tables)
    /\ CursorOf(tables) = 2
    /\ RangeN > 0

(***************************************************************************)
(* C16.  Under fair scheduling every concurrent round-robin insert ends:   *)
(* the row lock is held only by a call between its cursor read and its     *)
(* commit, it is released by the commit, no caller waits forever, and no   *)
(* lock is held once all the calls have returned.                          *)
(***************************************************************************)
C16_EveryCallCompletes ==
    /\ \A c \in Conns : (conn[c].pc # "idle") ~> (conn[c].pc = "idle")
    /\ [](lock # 0 => conn[lock].pc \in {"update", "insert", "commit"})
    /\ []((\A c \in Conns : conn[c].pc = "idle") => lock = 0)

\* a call waits at its SELECT ... FOR UPDATE for the lock another call took
\* with its own cursor read
C16_Witness ==
    \E x, y \in Conns :
        /\ lock = x
        /\ conn[x].pc = "update"
        /\ conn[y].pc = "select"
        /\ CursorReadable(Sess(y))

(***************************************************************************)
(* C17.  After roundrobinpartition(N), N > 0, and any round-robin inserts, *)
(* one after the other or interleaved, with valid or invalid ratings: in   *)
(* every committed state with no insert in progress the sizes of two       *)
(* rrobin partitions differ by at most one, and the cursor minus its seed  *)
(* is the number of records added to the rrobin partitions since the      *)
(* build.                                                                  *)
(***************************************************************************)
C17_BalancedPartitions ==
    (hist.T # -1 /\ \A c \in Conns : conn[c].pc = "idle") =>
        /\ \A i, j \in 0..(RRobinN - 1) :
              Len(tables[table_name(RROBIN_TABLE_PREFIX, i)])
                  - Len(tables[table_name(RROBIN_TABLE_PREFIX, j)]) <= 1
        /\ CursorOf(tables) - (hist.T % RRobinN)
              = Len(FamilyRows(tables, RROBIN_TABLE_PREFIX)) - hist.T

\* seven records dealt to three partitions, then two inserts: three records
\* in each partition
C17_Witness ==
    /\ hist.T = 7
    /\ RRobinN = 3
    /\ \A c \in Conns : conn[c].pc = "idle"
    /\ Len(hist.routed) = 2
    /\ CursorOf(tables) = 3
    /\ \A i \in 0..2 : Len(tables[table_name(RROBIN_TABLE_PREFIX, i)]) = 3

(***************************************************************************)
(* C18.  In every committed state the cursor row exists whenever the       *)
(* catalog holds a rrobin partition, so a round-robin insert that has      *)
(* counted N > 0 partitions never finds the cursor missing, also when it   *)
(* runs while roundrobinpartition runs on another connection.              *)
(***************************************************************************)
C18_CursorExists ==
    /\ RRobinN > 0 => (HasCursor(tables) /\ Len(tables[roundrobin_metadata]) = 1)
    /\ (last.op = "roundrobininsert" /\ last.n > 0) => last.outcome # "error"
    /\ \A c \in Conns : conn[c].pc \in {"select", "update", "insert", "commit"}
                           => CursorReadable(Sess(c))

\* an insert has counted no partition and waits to return while the build
\* on another connection has created its partitions and cursor, uncommitted
C18_Witness ==
    \E x, y \in Conns :
        /\ conn[x].pc = "buildcommit"
        /\ conn[x].n = 2
        /\ conn[y].pc = "count"
        /\ RRobinN = 0
        /\ ~HasCursor(tables)
        /\ HasCursor(View(Sess(x)))

\* the tables an insert of a family may write: the Base Dataset, the
\* partitions of the family and, for the round-robin family, the cursor
MayWrite(prefix, name) ==
    \/ name = ratingstablename
    \/ name[1] = prefix
    \/ prefix = RROBIN_TABLE_PREFIX /\ name = roundrobin_metadata

(***************************************************************************)
(* C19.  An insert writes the Base Dataset and tables of its own family    *)
(* only: rangeinsert changes no rrobin partition and not the cursor,       *)
(* roundrobininsert changes no range partition.                            *)
(***************************************************************************)
C19_FamiliesApart ==
    [][\A prefix \in Prefixes :
          last'.op = InsertOf(prefix) =>
              /\ DOMAIN tables' = DOMAIN tables
              /\ \A name \in DOMAIN tables :
                    ~MayWrite(prefix, name) => tables'[name] = tables[name]]_vars

\* a completed rangeinsert while both families and the cursor exist
C19_Witness ==
    /\ last.op = "rangeinsert"
    /\ last.outcome = "ok"
    /\ last.index = 1
    /\ RangeN = 2
    /\ RRobinN = 2
    /\ HasCursor(tables)

====
